---- MODULE Spec2Model ----
(***************************************************************************)
(* Model of src/main.py: an exponential-moving-average anomaly detector    *)
(* with an interactive session that appends data points to a store.        *)
(*                                                                         *)
(* Numbers.  The program computes with IEEE doubles.  A value is modelled  *)
(* as a record [k, n, d]: k = "fin" is the exact rational n/d (d > 0, in   *)
(* lowest terms), k = "inf" is +infinity (n = 1) or -infinity (n = -1),    *)
(* and k = "nan" is NaN.  Arithmetic on the special values follows IEEE    *)
(* 754 (inf - inf = nan, 0 * inf = nan, every comparison with nan is       *)
(* false).  Finite arithmetic is exact; rounding is not modelled.          *)
(* np.std is carried as its square, the population variance, and the test  *)
(* x > t * sqrt(v) for x >= 0, t > 0 is evaluated as x^2 > t^2 * v.        *)
(*                                                                         *)
(* Sequences are 1-based here; the program's index i is position i + 1.    *)
(*                                                                         *)
(* The store is a numpy array throughout (generate_data_stream and         *)
(* np.append both return one).  visualize() only plots and is left out.    *)
(* The session is run for seeded stores, initial EMA parameters and        *)
(* max_window_size values drawn from small sets that include the           *)
(* program's own (window 10, threshold 1.5, max_window_size 1e6).          *)
(***************************************************************************)
EXTENDS Integers, Sequences, FiniteSets, TLC

VARIABLES
    data,            \* the store (numpy array of samples), main.py:20, 92
    ema,             \* baseline sequence, main.py:79, 92
    anomalies,       \* list of flagged indices (0-based), main.py:79, 92
    cnt,             \* index tested for membership, main.py:83, 100
    window_size,     \* EMA's parameter in the most recent call, main.py:24
    threshold,       \* EMA's parameter in the most recent call, main.py:24
    max_window_size, \* update's parameter, main.py:49
    new_data_point,  \* the raw token read at main.py:87
    add_another,     \* the answer read at main.py:103, 107
    reported,        \* what the session printed at main.py:95-98
    error,           \* the exception that ended the program, if any
    submitted,       \* history: the samples handed to update(), in order
    pc               \* position of the module-level script

vars == <<data, ema, anomalies, cnt, window_size, threshold, max_window_size,
          new_data_point, add_another, reported, error, submitted, pc>>

----------------------------------------------------------------------------
(* Bounds of the model *)

MaxSeedLen == 3
MaxVal == 1
MaxWin == 3
MaxCap == 2
MaxSubmits == 2

(* Program constants *)

EMA_DEFAULT_WINDOW == 50
INIT_WINDOW == 10
DEFAULT_MAX_WINDOW_SIZE == 1000000

----------------------------------------------------------------------------
(* float values *)

RECURSIVE GCD(_, _)
GCD(a, b) == IF b = 0 THEN a ELSE GCD(b, a % b)

AbsInt(x) == IF x < 0 THEN -x ELSE x

Fin(n, d) ==
    LET g == GCD(AbsInt(n), d)
    IN  [k |-> "fin", n |-> n \div g, d |-> d \div g]

NaN == [k |-> "nan", n |-> 0, d |-> 1]
PInf == [k |-> "inf", n |-> 1, d |-> 1]
NInf == [k |-> "inf", n |-> -1, d |-> 1]

IsFinite(a) == a.k = "fin"

Neg(a) == [a EXCEPT !.n = -a.n]

Add(a, b) ==
    IF a.k = "nan" \/ b.k = "nan" THEN NaN
    ELSE IF a.k = "inf" THEN (IF b.k = "inf" /\ b.n # a.n THEN NaN ELSE a)
    ELSE IF b.k = "inf" THEN b
    ELSE Fin(a.n * b.d + b.n * a.d, a.d * b.d)

Sub(a, b) == Add(a, Neg(b))

(* a * j for an integer j >= 0 *)
MulInt(a, j) ==
    IF a.k = "nan" THEN NaN
    ELSE IF a.k = "inf" THEN (IF j = 0 THEN NaN ELSE a)
    ELSE Fin(a.n * j, a.d)

(* a / w for an integer w >= 1 *)
DivInt(a, w) ==
    IF a.k = "fin" THEN Fin(a.n, a.d * w) ELSE a

AbsV(a) == [a EXCEPT !.n = AbsInt(a.n)]

(* product of two finite values *)
MulFin(a, b) == Fin(a.n * b.n, a.d * b.d)

(* a < b for two finite values *)
LtFin(a, b) == a.n * b.d < b.n * a.d

RECURSIVE SumSeq(_)
SumSeq(s) == IF s = <<>> THEN Fin(0, 1) ELSE Add(Head(s), SumSeq(Tail(s)))

(* np.mean: nan for an empty slice *)
Mean(s) == IF s = <<>> THEN NaN ELSE DivInt(SumSeq(s), Len(s))

(* np.std squared: mean(abs(x - mean(x))^2); nan as soon as one element is
   not finite (x - mean is then inf - inf or involves nan) *)
Var(s) ==
    IF \E i \in 1..Len(s) : ~IsFinite(s[i]) THEN NaN
    ELSE LET mu == Mean(s)
             sq == [i \in 1..Len(s) |-> MulFin(Sub(s[i], mu), Sub(s[i], mu))]
         IN  Mean(sq)

(* dev > t * sqrt(var), for dev = abs(...) and a finite t > 0 *)
ExceedsNonStrict(dev, t, var) ==
    IF dev.k = "nan" \/ var.k = "nan" THEN FALSE
    ELSE IF dev.k = "inf" THEN TRUE
    ELSE ~LtFin(MulFin(dev, dev), MulFin(MulFin(t, t), var))

Exceeds(dev, t, var) ==
    IF dev.k = "nan" \/ var.k = "nan" THEN FALSE
    ELSE IF dev.k = "inf" THEN TRUE
    ELSE LtFin(MulFin(MulFin(t, t), var), MulFin(dev, dev))

Min(a, b) == IF a < b THEN a ELSE b

----------------------------------------------------------------------------
(* EMA, main.py:24-38 *)

DefaultThreshold == Fin(3, 1)
InitThreshold == Fin(3, 2)

(* lines 30-31, with the guard off by one *)
StepLate(moving_avg, w, i, x) ==
    IF i > w
    THEN DivInt(Add(MulInt(moving_avg, w - 1), x), w)
    ELSE moving_avg

(* lines 30-31: the moving average used at index i, whose sample is x *)
Step(moving_avg, w, i, x) ==
    IF i >= w
    THEN DivInt(Add(MulInt(moving_avg, w - 1), x), w)
    ELSE moving_avg

(* lines 35-36, recording the position after the flagged one *)
MarkNext(a, i, hit) == IF hit THEN Append(a, i + 1) ELSE a

(* lines 35-36: anomalies.append(i) when the test succeeded *)
Mark(a, i, hit) == IF hit THEN Append(a, i) ELSE a

(* lines 29-36: the loop, from index i on; e and a are the lists so far *)
RECURSIVE EMALoop(_, _, _, _, _, _, _)
EMALoop(d, w, t, i, moving_avg, e, a) ==
    IF i >= Len(d) THEN [ema |-> e, anomalies |-> a]
    ELSE LET m == Step(moving_avg, w, i, d[i + 1])
             hit == Exceeds(AbsV(Sub(d[i + 1], m)), t, Var(SubSeq(d, 1, i + 1)))
         IN  EMALoop(d, w, t, i + 1, m, Append(e, m), Mark(a, i, hit))

(* lines 24-38 *)
EMA(d, w, t) ==
    EMALoop(d, w, t, 0, Mean(SubSeq(d, 1, Min(w, Len(d)))), <<>>, <<>>)

----------------------------------------------------------------------------
(* preprocess and update, main.py:40-57 *)

Tokens == {"abc", "nan", "inf", "-inf", "0", "100"}

(* Python's float() on the tokens of the model: "nan", "inf" and "-inf"
   are accepted, a decimal literal gives its value, anything else raises
   ValueError *)
PyFloat(tok) ==
    CASE tok = "nan"  -> [raised |-> FALSE, value |-> NaN]
      [] tok = "inf"  -> [raised |-> FALSE, value |-> PInf]
      [] tok = "-inf" -> [raised |-> FALSE, value |-> NInf]
      [] tok = "0"    -> [raised |-> FALSE, value |-> Fin(0, 1)]
      [] tok = "100"  -> [raised |-> FALSE, value |-> Fin(100, 1)]
      [] OTHER        -> [raised |-> TRUE,  value |-> NaN]

(* lines 40-47, with the failure swallowed and 0.0 returned *)
preprocessLenient(tok) ==
    IF PyFloat(tok).raised
    THEN [raised |-> FALSE, value |-> Fin(0, 1)]
    ELSE PyFloat(tok)

(* lines 40-47: the ValueError of float() is re-raised as a ValueError *)
preprocess(tok) == PyFloat(tok)

(* lines 49-57, evicting the oldest sample of the new store *)
updateEvicting(x, d, M) ==
    [raised |-> FALSE,
     store  |-> IF Len(d) + 1 > M THEN Tail(Append(d, x)) ELSE Append(d, x)]

(* lines 49-57.  d is a numpy array: np.append returns a new array; when
   len(d) > M the call d.pop(0) raises AttributeError (an ndarray has no
   pop), and otherwise the new array is returned with nothing evicted *)
update(x, d, M) ==
    [raised |-> Len(d) > M, store |-> Append(d, x)]

(* lines 67-77.  The session's max_window_size stands for update's default
   parameter; EMA is called with its own defaults (50, 3) *)
process_data(x, d) ==
    LET u == update(x, d, max_window_size)
    IN  IF u.raised
        THEN [raised |-> TRUE, store |-> d, ema |-> ema, anomalies |-> anomalies]
        ELSE LET r == EMA(u.store, EMA_DEFAULT_WINDOW, DefaultThreshold)
             IN  [raised |-> FALSE, store |-> u.store,
                  ema |-> r.ema, anomalies |-> r.anomalies]

----------------------------------------------------------------------------
(* The session, main.py:20, 79-110 *)

SeedValues == {Fin(v, 1) : v \in 0..MaxVal}

(* the seeded store of the scenario: as many zeros as the initial window *)
ScenarioSeed == [i \in 1..INIT_WINDOW |-> Fin(0, 1)]

Seeds ==
    UNION {[1..n -> SeedValues] : n \in 0..MaxSeedLen} \cup {ScenarioSeed}

InitWindows == (1..MaxWin) \cup {INIT_WINDOW}
InitThresholds == {Fin(1, 1), InitThreshold}
Caps == (1..MaxCap) \cup {DEFAULT_MAX_WINDOW_SIZE}

Range(s) == {s[i] : i \in 1..Len(s)}

(* line 20: the store is seeded; nothing is computed yet *)
Init ==
    /\ data \in Seeds
    /\ ema = <<>>
    /\ anomalies = <<>>
    /\ cnt = 0
    /\ window_size \in InitWindows
    /\ threshold \in InitThresholds
    /\ max_window_size \in Caps
    /\ new_data_point = ""
    /\ add_another = ""
    /\ reported = "none"
    /\ error = "none"
    /\ submitted = <<>>
    /\ pc = "start"

(* lines 79-83: the initial computation and the counter *)
InitialEMA ==
    /\ pc = "start"
    /\ LET r == EMA(data, window_size, threshold)
       IN  /\ ema' = r.ema
           /\ anomalies' = r.anomalies
    /\ cnt' = Len(data)
    /\ pc' = "input"
    /\ UNCHANGED <<data, window_size, threshold, max_window_size,
                   new_data_point, add_another, reported, error, submitted>>

(* lines 87-92: read a token, preprocess it, process it *)
Submit(tok) ==
    /\ pc = "input"
    /\ Len(submitted) < MaxSubmits      \* bound of the model, not of the code
    /\ new_data_point' = tok
    /\ LET p == preprocess(tok)
       IN  IF p.raised
           THEN /\ error' = "ValueError"
                /\ pc' = "raised"
                /\ UNCHANGED <<data, ema, anomalies, window_size, threshold,
                               submitted>>
           ELSE LET r == process_data(p.value, data)
                IN  IF r.raised
                    THEN /\ error' = "AttributeError"
                         /\ pc' = "raised"
                         /\ UNCHANGED <<data, ema, anomalies, window_size,
                                        threshold, submitted>>
                    ELSE /\ data' = r.store
                         /\ ema' = r.ema
                         /\ anomalies' = r.anomalies
                         /\ window_size' = EMA_DEFAULT_WINDOW
                         /\ threshold' = DefaultThreshold
                         /\ submitted' = Append(submitted, p.value)
                         /\ error' = error
                         /\ pc' = "check"
    /\ UNCHANGED <<cnt, max_window_size, add_another, reported>>

(* lines 95-100: the membership test, the message and the counter *)
Report ==
    /\ pc = "check"
    /\ reported' = IF cnt \in Range(anomalies) THEN "anomaly" ELSE "normal"
    /\ cnt' = cnt + 1
    /\ pc' = "ask"
    /\ UNCHANGED <<data, ema, anomalies, window_size, threshold,
                   max_window_size, new_data_point, add_another, error,
                   submitted>>

(* lines 102-110: the y/n prompt; any other answer is asked again *)
Answer(a) ==
    /\ pc = "ask"
    /\ add_another' = a
    /\ pc' = IF a = "y" THEN "input" ELSE IF a = "n" THEN "done" ELSE "ask"
    /\ UNCHANGED <<data, ema, anomalies, cnt, window_size, threshold,
                   max_window_size, new_data_point, reported, error,
                   submitted>>

Next ==
    \/ InitialEMA
    \/ \E tok \in Tokens : Submit(tok)
    \/ Report
    \/ \E a \in {"y", "n", "other"} : Answer(a)

Spec == Init /\ [][Next]_vars

----------------------------------------------------------------------------
(* Properties *)

Computed == pc # "start"

(* C1: once more samples than max_window_size have been appended through
   update(), the store has exactly max_window_size entries, the most
   recently appended ones in arrival order. *)
C1_EvictionBound ==
    Len(submitted) > max_window_size =>
        /\ Len(data) = max_window_size
        /\ data = SubSeq(submitted, Len(submitted) - max_window_size + 1,
                         Len(submitted))

(* C2: for a non-empty store, the anomaly list computed by EMA never
   contains index 0. *)
C2_IndexZeroNeverAnomalous ==
    (Computed /\ Len(data) >= 1) => 0 \notin Range(anomalies)

(* C3: an index in the anomaly set after one computation is still in it
   after every later step of the session (stated for stores of finite
   samples). *)
C3_Monotone ==
    [][(Computed /\ \A j \in 1..Len(data') : IsFinite(data'[j])) =>
          \A i \in Range(anomalies) : i \in Range(anomalies')]_vars

C5_InvalidInputLeavesState ==
    [][(pc = "input" /\ pc' # "input" /\ new_data_point' = "abc") =>
          /\ pc' = "raised"
          /\ error' = "ValueError"
          /\ data' = data
          /\ ema' = ema
          /\ anomalies' = anomalies
          /\ submitted' = submitted]_vars

C5_Witness ==
    /\ pc = "raised"
    /\ error = "ValueError"
    /\ new_data_point = "abc"
    /\ Len(submitted) >= 1
    /\ Len(anomalies) >= 1

(* C6: a token denoting NaN or an infinity is rejected: it never gets past
   preprocess, and the store holds finite numbers only. *)
C6_OnlyFiniteAccepted ==
    /\ pc = "check" => new_data_point \notin {"nan", "inf", "-inf"}
    /\ \A i \in 1..Len(data) : IsFinite(data[i])

(* C7: after every computation the baseline sequence is as long as the
   store, and the anomaly list is strictly increasing with every entry an
   index of the store. *)
C7_Shapes ==
    Computed =>
        /\ Len(ema) = Len(data)
        /\ \A j \in 1..Len(anomalies) :
              /\ anomalies[j] \in 0..(Len(data) - 1)
              /\ j > 1 => anomalies[j - 1] < anomalies[j]

C7_Witness ==
    /\ pc = "check"
    /\ Len(submitted) >= 2
    /\ Len(anomalies) >= 2
    /\ Len(ema) = Len(data)

(* C8: window 10, threshold 1.5, ten zeros seeded: the baseline is 0 at all
   ten indices; submitting 100 gives baseline 10 at index 10, leaves 0 at
   indices 0..9, and index 10 is anomalous. *)
C8_Scenario ==
    [][(/\ pc = "input"
        /\ submitted = <<>>
        /\ window_size = INIT_WINDOW
        /\ threshold = InitThreshold
        /\ data = ScenarioSeed
        /\ new_data_point' = "100"
        /\ pc' = "check") =>
          /\ ema = ScenarioSeed
          /\ ema' = Append(ScenarioSeed, Fin(10, 1))
          /\ INIT_WINDOW \in Range(anomalies')]_vars

(* C9: the baseline is the mean of the first min(w, L) samples at every
   index below w, and follows the recurrence
   baseline[i] = (baseline[i-1] * (w-1) + store[i]) / w from index w on. *)
C9_SeedThenRecurrence ==
    Computed =>
        LET w == window_size
            L == Len(data)
        IN  \A i \in 0..(L - 1) :
              /\ i < w => ema[i + 1] = Mean(SubSeq(data, 1, Min(w, L)))
              /\ i >= w =>
                    ema[i + 1] =
                        DivInt(Add(MulInt(ema[i], w - 1), data[i + 1]), w)

C9_Witness ==
    /\ Computed
    /\ Len(data) >= window_size + 2
    /\ ema[Len(data)] # ema[Len(data) - 1]
    /\ ema[Len(data) - 1] # ema[1]

(* population variance of finite samples as E[x^2] - E[x]^2 *)
RefVar(s) ==
    LET sq == [i \in 1..Len(s) |-> MulFin(s[i], s[i])]
    IN  Sub(Mean(sq), MulFin(Mean(s), Mean(s)))

(* |store[i] - baseline[i]| > threshold * stddev(store[0..i]), strictly;
   a comparison involving nan is false, an infinite deviation exceeds
   every finite bound *)
RefTest(i) ==
    LET prefix == SubSeq(data, 1, i + 1)
        dev == Sub(data[i + 1], ema[i + 1])
    IN  IF \E j \in 1..(i + 1) : ~IsFinite(data[j]) THEN FALSE
        ELSE IF ~IsFinite(dev) THEN dev.k = "inf"
        ELSE LET lhs == MulFin(dev, dev)
                 rhs == MulFin(MulFin(threshold, threshold), RefVar(prefix))
             IN  lhs # rhs /\ ~LtFin(lhs, rhs)

(* C10: index i is in the anomaly list exactly when the strict test holds;
   when both sides are equal, i is not flagged. *)
C10_StrictThreshold ==
    Computed =>
        \A i \in 0..(Len(data) - 1) : (i \in Range(anomalies)) <=> RefTest(i)

C10_Witness ==
    /\ Computed
    /\ \E i \in 0..(Len(data) - 1) :
          /\ \A j \in 1..(i + 1) : IsFinite(data[j])
          /\ IsFinite(ema[i + 1])
          /\ RefVar(SubSeq(data, 1, i + 1)) # Fin(0, 1)
          /\ MulFin(Sub(data[i + 1], ema[i + 1]), Sub(data[i + 1], ema[i + 1]))
               = MulFin(MulFin(threshold, threshold),
                        RefVar(SubSeq(data, 1, i + 1)))
          /\ i \notin Range(anomalies)
    /\ anomalies # <<>>

====
